---- MODULE Spec2Model ----
(***************************************************************************)
(* A model of volttron/platform/control.py: the ControlService's crash     *)
(* supervisor (_monitor_agents, _restart_agent, send_alert), its agent     *)
(* installation over a dedicated channel (install_agent) and over pub/sub  *)
(* (install_agent_rmq), with _identity_exists_but_no_force,                *)
(* _install_wheel_to_platform, backup and restore of the agent data        *)
(* directory, and the sending side of the control client (_send_agent).    *)
(*                                                                         *)
(* The agent registry (self._aip, volttron.platform.aip) and a peer that   *)
(* sends the artifact by the fetch/checksum protocol are collaborators     *)
(* whose code is not part of control.py; they are modelled from the        *)
(* interface description (registry: status/start/stop/remove/install/      *)
(* dataDir/keystore; sender: the fetch/checksum protocol).                 *)
(***************************************************************************)
EXTENDS Integers, Sequences, FiniteSets, TLC

\* ------------------------------------------------------------------ bounds
\* uuids the registry can hand out (1..MaxUuid); 0 stands for Python's None
MaxUuid == 4
\* polls of _monitor_agents in one behaviour
MaxPolls == 6
\* polls of _monitor_agents in a behaviour with removes and installs
MaxRacePolls == 2
\* polls of _monitor_agents in a behaviour of a single crashed agent
MaxCyclePolls == 8
\* words concatenated to build an artifact
MaxWords == 2

\* --------------------------------------------------------------- constants
\* control.py:175  "if attempt < 5"
AttemptLimit == 5
\* control.py:178  "minutes=attempt * 5"
BackoffMinutes == 5
\* control.py:689  jsonapi.dumpb(["fetch", 1024])
FetchSize == 1024
\* control.py:1662  wheel.read(8192)
SendReadSize == 8192

NoUuid == 0
UUIDs == 1..MaxUuid
NoIdentity == ""
NoKey == 0
\* a keypair (public, secret) is one value; GenKey(u) is the pair the registry
\* generates for uuid u when none is passed to install
GivenKeys == {1, 2}
GenKey(u) == 10 + u
Files == {<<"f1">>, <<"f2">>}
\* poll periods, in minutes (agent_monitor_frequency)
Periods == {5, 10}

Min(a, b) == IF a <= b THEN a ELSE b
SetMin(S) == CHOOSE x \in S : \A y \in S : x <= y

VARIABLES
  \* ---- agent registry (self._aip)
  installed,      \* set of uuids installed
  identity,       \* uuid -> vip identity
  keystore,       \* uuid -> keypair
  dataDir,        \* uuid -> set of files in the agent's data directory
  proc,           \* uuid -> "never" | "running" | "exited0" | "crashed"
  nextUuid,       \* the next uuid install hands out
  archives,       \* uuid -> [present, files]: /tmp/<uuid>.tar.gz
  \* ---- supervisor (ControlService)
  crashed_agents, \* self.crashed_agents: a dict uuid -> attempt
  tasks,          \* one-shot restart tasks scheduled and not yet run
  alerts,         \* uuid -> number of alerts delivered
  now,            \* minutes since onstart
  polls,          \* number of _monitor_agents runs so far
  period,         \* agent_monitor_frequency, in minutes
  restarting,     \* uuids for which _restart_agent stands between stop and start
  \* ---- observation of the supervisor (history, not program state)
  sched,          \* uuid -> the delays of the restart tasks scheduled for it
  steady,         \* uuid -> it was crashed at construction and ever since
  alertFailed,    \* some alert delivery raised
  restarted,      \* uuid -> a restart task started it and no poll saw it crashed since
  ev,             \* the last supervisor event
  \* ---- install sessions (one call of install_agent each)
  pc,             \* session -> where the call of install_agent stands
  sess,           \* session -> the call's arguments, locals and resources
  peer,           \* session -> the sending peer and the channel's two directions
  hist            \* session -> observation of the session (history, not program state)

regVars == <<installed, identity, keystore, dataDir, proc, nextUuid, archives>>
supVars == <<crashed_agents, tasks, alerts, now, polls, period, restarting>>
obsVars == <<sched, steady, alertFailed, restarted, ev>>
instVars == <<pc, sess, peer, hist>>
vars == <<regVars, supVars, obsVars, instVars>>

\* ------------------------------------------------------- dict operations
\* dict.get(key, default)
DictGet(d, k, default) == IF k \in DOMAIN d THEN d[k] ELSE default
\* d[key] = value
DictSet(d, k, v) == [x \in (DOMAIN d) \cup {k} |-> IF x = k THEN v ELSE d[x]]
\* dict.pop(key) for a key that is present
DictPop(d, k) == [x \in (DOMAIN d) \ {k} |-> d[x]]
EmptyDict == [x \in {} |-> 0]

\* ------------------------------------------------------------ supervisor
\* a status test that takes every agent that is not running as unhealthy
IsErrorStatNotRunning(p) == p # "running"

\* "if stat:"  stat=0 means stopped and stat=None means running
IsErrorStat(p) == p = "crashed"

\* self._aip.status_agents(): agents that have been started at least once
StatusAgents == {u \in installed : proc[u] # "never"}

\* an attempt counted from a default one too low
NextAttemptFromBelow(ca, uid) == DictGet(ca, uid, -2) + 1

\* attempt = self.crashed_agents.get(uid, -1) + 1
NextAttempt(ca, uid) == DictGet(ca, uid, -1) + 1

\* a backoff that doubles instead of growing by five minutes
RestartDelayDoubling(attempt) == IF attempt = 0 THEN 0 ELSE BackoffMinutes * (2 ^ (attempt - 1))

\* timedelta(minutes=attempt * 5)
RestartDelay(attempt) == attempt * BackoffMinutes

\* One iteration of the loop of _monitor_agents for agent uid, on the loop's
\* state st = [ca, tasks, alerts, sched, seen, raised]; alertOk: vip.health.send_alert
\* returns (it raises otherwise, and the exception leaves _monitor_agents).
MonitorOne(st, uid, alertOk) ==
  IF st.raised \/ ~IsErrorStat(proc[uid]) THEN st
  ELSE LET attempt == NextAttempt(st.ca, uid) IN
    IF attempt < AttemptLimit
    THEN [st EXCEPT !.ca = DictSet(st.ca, uid, attempt),
                    !.seen = @ \cup {uid},
                    !.tasks = @ \cup {[uid |-> uid, at |-> now,
                                       delay |-> RestartDelay(attempt)]},
                    !.sched = [@ EXCEPT ![uid] = Append(@, RestartDelay(attempt))]]
    ELSE IF alertOk
      THEN [st EXCEPT !.alerts = [@ EXCEPT ![uid] = @ + 1],
                      !.ca = DictPop(st.ca, uid),
                      !.seen = @ \cup {uid}]
      ELSE [st EXCEPT !.raised = TRUE, !.seen = @ \cup {uid}]

RECURSIVE MonitorLoop(_, _, _)
MonitorLoop(st, order, alertOk) ==
  IF order = <<>> THEN st
  ELSE MonitorLoop(MonitorOne(st, Head(order), alertOk), Tail(order), alertOk)

\* the orders in which status_agents may list the agents
Orders(S) == {o \in UNION {[1..n -> S] : n \in {Cardinality(S)}} :
                \A i, j \in DOMAIN o : i # j => o[i] # o[j]}

PollDue == polls * period

\* _monitor_agents, run by the periodic scheduler, for the first limit polls
MonitorAgentsUpTo(limit) ==
  /\ polls < limit
  /\ now = PollDue
  /\ \E order \in Orders(StatusAgents), alertOk \in BOOLEAN :
       LET st0 == [ca |-> crashed_agents, tasks |-> tasks, alerts |-> alerts,
                   sched |-> sched, seen |-> {}, raised |-> FALSE]
           st == MonitorLoop(st0, order, alertOk)
       IN /\ crashed_agents' = st.ca
          /\ tasks' = st.tasks
          /\ alerts' = st.alerts
          /\ sched' = st.sched
          /\ alertFailed' = (alertFailed \/ st.raised)
          /\ restarted' = [u \in UUIDs |-> restarted[u] /\ u \notin st.seen]
          /\ ev' = [op |-> "poll", uid |-> NoUuid, res |-> IF st.raised THEN "raised" ELSE "ok"]
  /\ polls' = polls + 1
  /\ UNCHANGED <<regVars, now, period, restarting, steady, instVars>>

MonitorAgents == MonitorAgentsUpTo(MaxPolls)

\* a restart that clears the record whatever start returned
AfterStartClear(ca, uid, started) == IF uid \in DOMAIN ca THEN DictPop(ca, uid) ELSE ca

\* a restart that never clears the record
AfterStartKeep(ca, uid, started) == ca

\* the record after "(id, stat) = self._aip.start_agent(agent_id)":
\* "if stat is None: self.crashed_agents.pop(agent_id)"
AfterStart(ca, uid, started) == IF started THEN DictPop(ca, uid) ELSE ca

\* (id, stat) = self._aip.start_agent(agent_id) for an installed agent, and
\* the pop of its record when stat is None
StartAndPop(uid) ==
  \E started \in BOOLEAN :
    /\ proc' = [proc EXCEPT ![uid] = IF started THEN "running" ELSE "crashed"]
    /\ IF started /\ uid \notin DOMAIN crashed_agents
       THEN \* dict.pop of a missing key: KeyError
            /\ crashed_agents' = crashed_agents
            /\ ev' = [op |-> "restart", uid |-> uid, res |-> "keyerror"]
       ELSE /\ crashed_agents' = AfterStart(crashed_agents, uid, started)
            /\ ev' = [op |-> "restart", uid |-> uid,
                      res |-> IF started THEN "started" ELSE "failed"]
    /\ steady' = [steady EXCEPT ![uid] = @ /\ ~started]
    /\ restarted' = [restarted EXCEPT ![uid] = @ \/ started]

\* _restart_agent(agent_id, agent_name), run by a one-shot task at its time
RestartAgent(t) ==
  /\ t \in tasks
  /\ t.at + t.delay <= now
  /\ tasks' = tasks \ {t}
  /\ IF t.uid \in installed /\ IsErrorStat(proc[t.uid])
     THEN StartAndPop(t.uid)
     ELSE /\ UNCHANGED <<proc, crashed_agents, steady, restarted>>
          /\ ev' = [op |-> "restart", uid |-> t.uid, res |-> "skipped"]
  /\ UNCHANGED <<installed, identity, keystore, dataDir, nextUuid, archives,
                 alerts, now, polls, period, restarting, sched, alertFailed, instVars>>

\* _restart_agent when the greenlet is switched out in stop_agent (its
\* send_vip to the router), first part: the status check and the stop
RestartStop(t) ==
  /\ t \in tasks
  /\ t.at + t.delay <= now
  /\ tasks' = tasks \ {t}
  /\ IF t.uid \in installed /\ IsErrorStat(proc[t.uid])
     THEN /\ restarting' = restarting \cup {t.uid}
          /\ ev' = [op |-> "stop", uid |-> t.uid, res |-> "ok"]
     ELSE /\ restarting' = restarting
          /\ ev' = [op |-> "restart", uid |-> t.uid, res |-> "skipped"]
  /\ UNCHANGED <<regVars, crashed_agents, alerts, now, polls, period,
                 sched, steady, alertFailed, restarted, instVars>>

\* second part: (id, stat) = self._aip.start_agent(agent_id) and the pop; the
\* start of a uuid that is not installed any more raises
RestartStart(u) ==
  /\ u \in restarting
  /\ restarting' = restarting \ {u}
  /\ IF u \in installed
     THEN StartAndPop(u)
     ELSE /\ ev' = [op |-> "restart", uid |-> u, res |-> "removed"]
          /\ UNCHANGED <<proc, crashed_agents, steady, restarted>>
  /\ UNCHANGED <<installed, identity, keystore, dataDir, nextUuid, archives,
                 tasks, alerts, now, polls, period, sched, alertFailed, instVars>>

\* the RPC remove_agent(uuid) for an installed agent: the agentstop message
\* to the router, then self._aip.remove_agent(uuid)
RemoveAgent(u) ==
  /\ u \in installed
  /\ installed' = installed \ {u}
  /\ identity' = [identity EXCEPT ![u] = NoIdentity]
  /\ keystore' = [keystore EXCEPT ![u] = NoKey]
  /\ dataDir' = [dataDir EXCEPT ![u] = {}]
  /\ proc' = [proc EXCEPT ![u] = "never"]
  /\ steady' = [steady EXCEPT ![u] = FALSE]
  /\ ev' = [op |-> "remove", uid |-> u, res |-> "ok"]
  /\ UNCHANGED <<nextUuid, archives, supVars, sched, alertFailed, restarted, instVars>>

\* a running agent process dies with a non-zero exit status
Crash(u) ==
  /\ u \in installed
  /\ proc[u] = "running"
  /\ proc' = [proc EXCEPT ![u] = "crashed"]
  /\ ev' = [op |-> "crash", uid |-> u, res |-> "ok"]
  /\ UNCHANGED <<installed, identity, keystore, dataDir, nextUuid, archives,
                 supVars, sched, steady, alertFailed, restarted, instVars>>

\* a running agent process exits with status 0
ExitClean(u) ==
  /\ u \in installed
  /\ proc[u] = "running"
  /\ proc' = [proc EXCEPT ![u] = "exited0"]
  /\ ev' = [op |-> "exit", uid |-> u, res |-> "ok"]
  /\ UNCHANGED <<installed, identity, keystore, dataDir, nextUuid, archives,
                 supVars, sched, steady, alertFailed, restarted, instVars>>

\* the scheduler's clock moves to the next poll or the next restart task
NextTimes(limit) == {t.at + t.delay : t \in tasks} \cup
                    (IF polls < limit THEN {PollDue} ELSE {})

AdvanceUpTo(limit) ==
  /\ NextTimes(limit) # {}
  /\ \A x \in NextTimes(limit) : x > now
  /\ now' = SetMin(NextTimes(limit))
  /\ ev' = [op |-> "advance", uid |-> NoUuid, res |-> "ok"]
  /\ UNCHANGED <<regVars, crashed_agents, tasks, alerts, polls, period,
                 restarting, sched, steady, alertFailed, restarted, instVars>>

Advance == AdvanceUpTo(MaxPolls)

\* ------------------------------------------------------- artifact transfer
\* b"complete", the end-of-stream sentinel
Sentinel == <<"c", "o", "m", "p", "l", "e", "t", "e">>

\* artifacts: byte strings built from at most MaxWords of these words, so that
\* they come in lengths 0..16 and some hold the bytes of the sentinel
Words == {<<"x">>, <<"x", "y", "x">>, Sentinel}

RECURSIVE Concats(_)
Concats(n) == IF n = 0 THEN {<<>>}
              ELSE Concats(n - 1) \cup {a \o w : a \in Concats(n - 1), w \in Words}
Artifacts == Concats(MaxWords)

\* the chunk size a session asks for: the source's 1024 and, so that artifacts
\* of a few bytes take several chunks, sizes of a few bytes
ChunkSizes == {2, 8, FetchSize}

\* what a corrupted chunk may be replaced by in transit
CorruptPayloads == {<<>>, <<"z">>, <<"x", "y">>, Sentinel}

\* hashlib.sha512: the digest of the bytes fed to the accumulator so far. The
\* hash is taken as collision-free: the digest determines the bytes.
Sha512(bytes) == <<"sha512">> \o bytes

\* jsonapi.dumpb(["fetch", 1024]) and jsonapi.dumpb(["checksum"])
RequestFetch(size) == [op |-> "fetch", size |-> size]
RequestChecksum == [op |-> "checksum", size |-> 0]

\* a receiver that never recognises the sentinel
IsCompleteNever(chunk) == FALSE

\* if chunk == b"complete"
IsComplete(chunk) == chunk = Sentinel

\* a receiver that does not compare the checksum
ChecksumMatchesAlways(checksum, acc) == TRUE

\* assert checksum == sha512.digest()
ChecksumMatches(checksum, acc) == checksum = Sha512(acc)

\* a receiver that asks for the next chunk without verifying this one
AfterWriteNoChecksum(rmq) == IF rmq THEN "rmq_fetch" ELSE "fetch"

\* after sha512.update(chunk); store.write(chunk): the checksum request
AfterWrite(rmq) == IF rmq THEN "rmq_checksum" ELSE "checksum"

\* a receiver that asks again after a timeout
OnTimeoutRetry(at) == [pc |-> "fetch", pending |-> "none"]

\* except gevent.Timeout: raise  -- the Timeout leaves the loop for the finally
OnTimeout(at) == [pc |-> "inner_finally", pending |-> "Timeout"]

\* a transfer whose failure is logged and not raised again
AfterTransferSwallow(pending) == "install"

\* after the inner finally: a pending exception goes on to the outer finally,
\* otherwise _install_wheel_to_platform is called
AfterTransfer(pending) == IF pending = "none" THEN "install" ELSE "outer_finally"

\* ---- the sending peer, following the fetch/checksum protocol
\* read up to size bytes at the cursor
SenderRead(file, cursor, size) == SubSeq(file, cursor + 1, Min(cursor + size, Len(file)))

SenderReply(s) ==
  /\ pc[s] \notin {"idle", "done"}
  /\ peer[s].toPeer # <<>>
  /\ LET p == peer[s]
         req == Head(p.toPeer)
         data == SenderRead(p.file, p.cursor, req.size)
     IN peer' = [peer EXCEPT ![s] =
          IF req.op = "fetch"
          THEN IF data = <<>>
               THEN [p EXCEPT !.toPeer = Tail(@),
                              !.toMe = Append(@, [kind |-> "sentinel", data |-> Sentinel])]
               ELSE [p EXCEPT !.toPeer = Tail(@),
                              !.cursor = @ + Len(data),
                              !.sha = @ \o data,
                              !.toMe = Append(@, [kind |-> "chunk", data |-> data])]
          ELSE [p EXCEPT !.toPeer = Tail(@),
                         !.toMe = Append(@, [kind |-> "digest", data |-> Sha512(p.sha)])]]
  /\ UNCHANGED <<regVars, supVars, obsVars, pc, sess, hist>>

\* the transport replaces one chunk in transit by a different byte string
Corrupt(s) ==
  /\ ~hist[s].corrupted
  /\ peer[s].toMe # <<>>
  /\ Head(peer[s].toMe).kind = "chunk"
  /\ \E c \in CorruptPayloads :
       /\ c # Head(peer[s].toMe).data
       /\ peer' = [peer EXCEPT ![s].toMe = <<[kind |-> "chunk", data |-> c]>> \o Tail(@)]
  /\ hist' = [hist EXCEPT ![s].corrupted = TRUE]
  /\ UNCHANGED <<regVars, supVars, obsVars, pc, sess>>

\* --------------------------------------------------------------- _send_agent
\* _send_agent(connection, peer, path): the sender of control.py. It opens the
\* wheel and a channel, calls install_agent(basename(path), channel.name) and
\* spawns send(); peer[s].send is the position of send().
\* "channel.recv()  # Wait for peer to open compliment channel"
SendAgentRecvOpen(s) ==
  /\ pc[s] \notin {"idle", "done"}
  /\ peer[s].send = "recv_open"
  /\ peer[s].toPeer # <<>>
  /\ peer' = [peer EXCEPT ![s].toPeer = Tail(@), ![s].send = "loop"]
  /\ UNCHANGED <<regVars, supVars, obsVars, pc, sess, hist>>

\* data = wheel.read(8192); channel.send(data); if not data: break
SendAgentSend(s) ==
  /\ pc[s] \notin {"idle", "done"}
  /\ peer[s].send = "loop"
  /\ LET data == SenderRead(peer[s].file, peer[s].cursor, SendReadSize) IN
       peer' = [peer EXCEPT ![s].cursor = @ + Len(data),
                            ![s].toMe = Append(@, [kind |-> "data", data |-> data]),
                            ![s].send = IF data = <<>> THEN "recv_done" ELSE "loop"]
  /\ UNCHANGED <<regVars, supVars, obsVars, pc, sess, hist>>

\* "channel.recv()  # Wait for peer to signal all data received", then
\* finally: wheel.close(); channel.close(linger=0)
SendAgentRecvDone(s) ==
  /\ pc[s] \notin {"idle", "done"}
  /\ peer[s].send = "recv_done"
  /\ peer[s].toPeer # <<>>
  /\ peer' = [peer EXCEPT ![s].toPeer = Tail(@), ![s].send = "closed",
                          ![s].wheel = "closed"]
  /\ UNCHANGED <<regVars, supVars, obsVars, pc, sess, hist>>

\* result.rawlink(lambda glt: task.kill(block=False)): send() is killed when
\* the call has its result; its finally closes the wheel and the channel
SendAgentKill(s) ==
  /\ pc[s] = "done"
  /\ peer[s].send # "closed"
  /\ peer' = [peer EXCEPT ![s].send = "closed", ![s].wheel = "closed"]
  /\ UNCHANGED <<regVars, supVars, obsVars, pc, sess, hist>>

\* --------------------------------------------------------------- registry
Registry == [installed |-> installed, identity |-> identity, keystore |-> keystore,
             dataDir |-> dataDir, proc |-> proc, archives |-> archives]

\* _identity_exists: the uuid of the installed agent with this identity, or None
IdentityExists(id) ==
  IF \E u \in installed : identity[u] = id
  THEN CHOOSE u \in installed : identity[u] = id
  ELSE NoUuid

\* an identity check that does not look at force
IdentityExistsIgnoringForce(vip_identity, force) ==
  LET agent_uuid == IF vip_identity # NoIdentity THEN IdentityExists(vip_identity)
                    ELSE NoUuid
  IN [agent_uuid |-> agent_uuid, agent_existed_before |-> agent_uuid # NoUuid,
      raises |-> FALSE]

\* _identity_exists_but_no_force
IdentityExistsButNoForce(vip_identity, force) ==
  LET agent_uuid == IF vip_identity # NoIdentity THEN IdentityExists(vip_identity)
                    ELSE NoUuid
  IN [agent_uuid |-> agent_uuid, agent_existed_before |-> agent_uuid # NoUuid,
      raises |-> agent_uuid # NoUuid /\ ~force]

\* a path is the sequence of its components; an absolute path starts with ""
RECURSIVE LStripSep(_)
LStripSep(path) == IF path # <<>> /\ Head(path) = "" THEN LStripSep(Tail(path)) ELSE path

\* an archive whose members sit under the directory's own name
BackupAgentDataBasename(source_dir) == {<<"agent-data">> \o f : f \in source_dir}

\* backup_agent_data: tar.add(source_dir, arcname=os.path.sep): each file is
\* stored as os.path.sep joined with its path in the directory, and tarfile
\* strips the leading separators of a member's name
BackupAgentData(source_dir) == {LStripSep(<<"">> \o f) : f \in source_dir}

\* restore_agent_data_from_tgz: tar.extractall(output_dir)
RestoreAgentDataFromTgz(members, output_dir) == output_dir \cup members

\* ---- the registry's own operations (self._aip)
\* remove(uuid): the agent, its keystore and its data directory go away
AipRemoveAgent(u) ==
  /\ installed' = installed \ {u}
  /\ identity' = [identity EXCEPT ![u] = NoIdentity]
  /\ keystore' = [keystore EXCEPT ![u] = NoKey]
  /\ dataDir' = [dataDir EXCEPT ![u] = {}]
  /\ proc' = [proc EXCEPT ![u] = "never"]

\* install(path, identity, publickey, secretkey) -> a fresh uuid
AipInstallAgent(u, vip_identity, keypair) ==
  /\ installed' = installed \cup {u}
  /\ identity' = [identity EXCEPT ![u] = IF vip_identity = NoIdentity THEN "auto"
                                         ELSE vip_identity]
  /\ keystore' = [keystore EXCEPT ![u] = IF keypair = NoKey THEN GenKey(u) ELSE keypair]
  /\ nextUuid' = u + 1

\* ------------------------------------------------------------ install_agent
Sessions == {"s1"}
\* two calls of install_agent in flight at once
Concurrent == {"s1", "s2"}

IdleSess == [call |-> [vip_identity |-> NoIdentity, force |-> FALSE,
                       keypair |-> NoKey, fetch_size |-> 0],
             agent_uuid |-> NoUuid, agent_existed_before |-> FALSE,
             channel |-> "none", closes |-> 0, tmpdir |-> "unbound",
             store |-> "unbound", data |-> <<>>, sha512 |-> <<>>,
             keypair |-> NoKey, backup_agent_file |-> NoUuid,
             pending |-> "none", outcome |-> "none", result |-> NoUuid,
             subscribed |-> {}, protocol_message |-> <<>>,
             response_received |-> FALSE, rmq |-> FALSE]
IdlePeer == [file |-> <<>>, cursor |-> 0, sha |-> <<>>, toPeer |-> <<>>, toMe |-> <<>>,
             send |-> "recv_open", wheel |-> "open"]

\* the RPC install_agent(filename, channel_name, vip_identity, publickey,
\* secretkey, force) up to the opening of the channel
InstallAgent(s, in) ==
  /\ pc[s] = "idle"
  /\ LET r == IdentityExistsButNoForce(in.vip_identity, in.force)
         call == [vip_identity |-> in.vip_identity, force |-> in.force,
                  keypair |-> in.keypair, fetch_size |-> in.fetch_size]
     IN IF r.raises
        THEN /\ pc' = [pc EXCEPT ![s] = "done"]
             /\ sess' = [sess EXCEPT ![s].call = call, ![s].outcome = "ValueError"]
        ELSE /\ pc' = [pc EXCEPT ![s] = "mkdtemp"]
             /\ sess' = [sess EXCEPT ![s].call = call,
                                     ![s].agent_uuid = r.agent_uuid,
                                     ![s].agent_existed_before = r.agent_existed_before,
                                     ![s].channel = "open"]
  /\ peer' = [peer EXCEPT ![s].file = in.artifact]
  /\ hist' = [hist EXCEPT ![s].regAtCall = Registry]
  /\ UNCHANGED <<regVars, supVars, obsVars>>

\* tmpdir = tempfile.mkdtemp()
MkDtemp(s) ==
  /\ pc[s] = "mkdtemp"
  /\ \E ok \in BOOLEAN :
       IF ok THEN /\ pc' = [pc EXCEPT ![s] = "open"]
                  /\ sess' = [sess EXCEPT ![s].tmpdir = "exists"]
       ELSE /\ pc' = [pc EXCEPT ![s] = "outer_finally"]
            /\ sess' = [sess EXCEPT ![s].pending = "OSError"]
  /\ UNCHANGED <<regVars, supVars, obsVars, peer, hist>>

\* store = open(path, "wb"); sha512 = hashlib.sha512()
OpenStore(s) ==
  /\ pc[s] = "open"
  /\ \E ok \in BOOLEAN :
       IF ok THEN /\ pc' = [pc EXCEPT ![s] = IF sess[s].rmq THEN "subscribe" ELSE "fetch"]
                  /\ sess' = [sess EXCEPT ![s].store = "open", ![s].data = <<>>,
                                          ![s].sha512 = <<>>]
       ELSE /\ pc' = [pc EXCEPT ![s] = "outer_finally"]
            /\ sess' = [sess EXCEPT ![s].pending = "OSError"]
  /\ UNCHANGED <<regVars, supVars, obsVars, peer, hist>>

\* a destination that keeps only the chunk written last
StoreWriteOverwrite(data, chunk) == chunk

\* store.write(chunk) on the file opened with "wb": the chunk is appended
StoreWrite(data, chunk) == data \o chunk

\* channel.send(request_fetch)
SendFetch(s) ==
  /\ pc[s] = "fetch"
  /\ peer' = [peer EXCEPT ![s].toPeer = Append(@, RequestFetch(sess[s].call.fetch_size))]
  /\ hist' = [hist EXCEPT ![s].requests = Append(@, "fetch"),
                          ![s].xfer = "running"]
  /\ pc' = [pc EXCEPT ![s] = "wait_chunk"]
  /\ UNCHANGED <<regVars, supVars, obsVars, sess>>

\* chunk = channel.recv(); break on the sentinel, else sha512.update(chunk)
\* and store.write(chunk)
RecvChunk(s) ==
  /\ pc[s] = "wait_chunk"
  /\ peer[s].toMe # <<>>
  /\ LET chunk == Head(peer[s].toMe).data IN
       IF IsComplete(chunk)
       THEN /\ pc' = [pc EXCEPT ![s] = "inner_finally"]
            /\ hist' = [hist EXCEPT ![s].xfer = "complete",
                                    ![s].received = Append(@, "sentinel"),
                                    ![s].got = Append(@, chunk)]
            /\ sess' = sess
       ELSE /\ pc' = [pc EXCEPT ![s] = AfterWrite(sess[s].rmq)]
            /\ sess' = [sess EXCEPT ![s].sha512 = @ \o chunk, ![s].data = StoreWrite(@, chunk)]
            /\ hist' = [hist EXCEPT ![s].received = Append(@, "chunk"),
                                    ![s].got = Append(@, chunk)]
  /\ peer' = [peer EXCEPT ![s].toMe = Tail(@)]
  /\ UNCHANGED <<regVars, supVars, obsVars>>

\* channel.send(request_checksum)
SendChecksum(s) ==
  /\ pc[s] = "checksum"
  /\ peer' = [peer EXCEPT ![s].toPeer = Append(@, RequestChecksum)]
  /\ hist' = [hist EXCEPT ![s].requests = Append(@, "checksum")]
  /\ pc' = [pc EXCEPT ![s] = "wait_checksum"]
  /\ UNCHANGED <<regVars, supVars, obsVars, sess>>

\* checksum = channel.recv(); assert checksum == sha512.digest()
RecvChecksum(s) ==
  /\ pc[s] = "wait_checksum"
  /\ peer[s].toMe # <<>>
  /\ LET checksum == Head(peer[s].toMe).data IN
       IF ChecksumMatches(checksum, sess[s].sha512)
       THEN /\ pc' = [pc EXCEPT ![s] = "fetch"]
            /\ hist' = [hist EXCEPT ![s].verified = checksum,
                                    ![s].received = Append(@, "digest"),
                                    ![s].got = Append(@, checksum)]
            /\ sess' = sess
       ELSE /\ pc' = [pc EXCEPT ![s] = "inner_finally"]
            /\ sess' = [sess EXCEPT ![s].pending = "AssertionError"]
            /\ hist' = [hist EXCEPT ![s].xfer = "failed",
                                    ![s].received = Append(@, "digest"),
                                    ![s].got = Append(@, checksum)]
  /\ peer' = [peer EXCEPT ![s].toMe = Tail(@)]
  /\ UNCHANGED <<regVars, supVars, obsVars>>

\* with gevent.Timeout(30): no response arrived within the bound
ReceiveTimeout(s) ==
  /\ pc[s] \in {"wait_chunk", "wait_checksum"}
  /\ peer[s].toMe = <<>>
  /\ LET to == OnTimeout(pc[s]) IN
       /\ pc' = [pc EXCEPT ![s] = to.pc]
       /\ sess' = [sess EXCEPT ![s].pending = to.pending]
  /\ hist' = [hist EXCEPT ![s].timedOut = TRUE, ![s].xfer = "failed"]
  /\ UNCHANGED <<regVars, supVars, obsVars, peer>>

\* finally: store.close(); channel.close(linger=0); del channel
InnerFinally(s) ==
  /\ pc[s] = "inner_finally"
  /\ sess' = [sess EXCEPT ![s].store = "closed", ![s].channel = "closed",
                          ![s].closes = @ + 1]
  /\ pc' = [pc EXCEPT ![s] = AfterTransfer(sess[s].pending)]
  /\ UNCHANGED <<regVars, supVars, obsVars, peer, hist>>

\* -------------------------------------------------------- install_agent_rmq
\* the two pub/sub topics of a session: requests are published on
\* response_topic, responses arrive on topic
Topic == "topic"
ResponseTopic == "response_topic"

\* the RPC install_agent_rmq(vip_identity, filename, topic, force,
\* response_topic) up to the try
InstallAgentRmq(s, in) ==
  /\ pc[s] = "idle"
  /\ LET r == IdentityExistsButNoForce(in.vip_identity, in.force)
         call == [vip_identity |-> in.vip_identity, force |-> in.force,
                  keypair |-> in.keypair, fetch_size |-> in.fetch_size]
     IN IF r.raises
        THEN /\ pc' = [pc EXCEPT ![s] = "done"]
             /\ sess' = [sess EXCEPT ![s].call = call, ![s].outcome = "ValueError",
                                     ![s].rmq = TRUE]
        ELSE /\ pc' = [pc EXCEPT ![s] = "mkdtemp"]
             /\ sess' = [sess EXCEPT ![s].call = call,
                                     ![s].agent_uuid = r.agent_uuid,
                                     ![s].agent_existed_before = r.agent_existed_before,
                                     ![s].rmq = TRUE]
  /\ peer' = [peer EXCEPT ![s].file = in.artifact]
  /\ hist' = [hist EXCEPT ![s].regAtCall = Registry]
  /\ UNCHANGED <<regVars, supVars, obsVars>>

\* self.vip.pubsub.subscribe(peer="pubsub", prefix=topic,
\*     callback=protocol_subscription).get(timeout=5); gevent.sleep(5)
Subscribe(s) ==
  /\ pc[s] = "subscribe"
  /\ \E ok \in BOOLEAN :
       IF ok THEN /\ pc' = [pc EXCEPT ![s] = "rmq_fetch"]
                  /\ sess' = [sess EXCEPT ![s].subscribed = @ \cup {Topic}]
                  /\ hist' = hist
       ELSE /\ pc' = [pc EXCEPT ![s] = "rmq_finally"]
            /\ sess' = [sess EXCEPT ![s].pending = "Timeout"]
            /\ hist' = [hist EXCEPT ![s].xfer = "failed"]
  /\ UNCHANGED <<regVars, supVars, obsVars, peer>>

\* protocol_subscription(peer, sender, bus, topic, headers, message): the
\* callback of the subscription, run when a message arrives on the topic:
\* protocol_message = base64.b64decode(message); response_received = True.
\* A message on the wire is the base64 text of its bytes; the queue holds the
\* bytes it decodes to.
ProtocolSubscription(s) ==
  /\ Topic \in sess[s].subscribed
  /\ peer[s].toMe # <<>>
  /\ sess' = [sess EXCEPT ![s].protocol_message = Head(peer[s].toMe).data,
                          ![s].response_received = TRUE]
  /\ peer' = [peer EXCEPT ![s].toMe = Tail(@)]
  /\ hist' = [hist EXCEPT ![s].delivered = @ + 1]
  /\ UNCHANGED <<regVars, supVars, obsVars, pc>>

\* a receiver that clears the flag once the publish call has returned
FlagWhenPublishedReset(flag) == FALSE

\* the flag when publish(...).get(timeout=5) returns: it is not touched, so a
\* response the callback stored while the call was waiting is still there
FlagWhenPublished(flag) == flag

\* publish(...).get(timeout=5) returns; the polling loop starts
RmqPublished(s) ==
  /\ pc[s] \in {"rmq_pub_fetch", "rmq_pub_checksum"}
  /\ pc' = [pc EXCEPT ![s] = IF pc[s] = "rmq_pub_fetch" THEN "rmq_wait_chunk"
                             ELSE "rmq_wait_checksum"]
  /\ sess' = [sess EXCEPT ![s].response_received = FlagWhenPublished(@)]
  /\ UNCHANGED <<regVars, supVars, obsVars, peer, hist>>

\* response_received = False; publish("pubsub", topic=response_topic,
\*     message=request_fetch).get(timeout=5)
RmqSendFetch(s) ==
  /\ pc[s] = "rmq_fetch"
  /\ sess' = [sess EXCEPT ![s].response_received = FALSE]
  /\ peer' = [peer EXCEPT ![s].toPeer = Append(@, RequestFetch(sess[s].call.fetch_size))]
  /\ hist' = [hist EXCEPT ![s].requests = Append(@, "fetch"),
                          ![s].xfer = "running"]
  /\ pc' = [pc EXCEPT ![s] = "rmq_pub_fetch"]
  /\ UNCHANGED <<regVars, supVars, obsVars>>

\* while not response_received: gevent.sleep(0.1); chunk = protocol_message;
\* break on the sentinel, else sha512.update(chunk) and store.write(chunk)
RmqRecvChunk(s) ==
  /\ pc[s] = "rmq_wait_chunk"
  /\ sess[s].response_received
  /\ LET chunk == sess[s].protocol_message IN
       IF IsComplete(chunk)
       THEN /\ pc' = [pc EXCEPT ![s] = "rmq_finally"]
            /\ hist' = [hist EXCEPT ![s].xfer = "complete",
                                    ![s].received = Append(@, "sentinel"),
                                    ![s].got = Append(@, chunk)]
            /\ sess' = sess
       ELSE /\ pc' = [pc EXCEPT ![s] = AfterWrite(sess[s].rmq)]
            /\ sess' = [sess EXCEPT ![s].sha512 = @ \o chunk, ![s].data = StoreWrite(@, chunk)]
            /\ hist' = [hist EXCEPT ![s].received = Append(@, "chunk"),
                                    ![s].got = Append(@, chunk)]
  /\ UNCHANGED <<regVars, supVars, obsVars, peer>>

\* response_received = False; publish("pubsub", topic=response_topic,
\*     message=request_checksum).get(timeout=5)
RmqSendChecksum(s) ==
  /\ pc[s] = "rmq_checksum"
  /\ sess' = [sess EXCEPT ![s].response_received = FALSE]
  /\ peer' = [peer EXCEPT ![s].toPeer = Append(@, RequestChecksum)]
  /\ hist' = [hist EXCEPT ![s].requests = Append(@, "checksum")]
  /\ pc' = [pc EXCEPT ![s] = "rmq_pub_checksum"]
  /\ UNCHANGED <<regVars, supVars, obsVars>>

\* while not response_received: gevent.sleep(0.1); checksum = protocol_message;
\* assert checksum == sha512.digest()
RmqRecvChecksum(s) ==
  /\ pc[s] = "rmq_wait_checksum"
  /\ sess[s].response_received
  /\ LET checksum == sess[s].protocol_message IN
       IF ChecksumMatches(checksum, sess[s].sha512)
       THEN /\ pc' = [pc EXCEPT ![s] = "rmq_fetch"]
            /\ hist' = [hist EXCEPT ![s].verified = checksum,
                                    ![s].received = Append(@, "digest"),
                                    ![s].got = Append(@, checksum)]
            /\ sess' = sess
       ELSE /\ pc' = [pc EXCEPT ![s] = "rmq_finally"]
            /\ sess' = [sess EXCEPT ![s].pending = "AssertionError"]
            /\ hist' = [hist EXCEPT ![s].xfer = "failed",
                                    ![s].received = Append(@, "digest"),
                                    ![s].got = Append(@, checksum)]
  /\ UNCHANGED <<regVars, supVars, obsVars, peer>>

\* with gevent.Timeout(30): the flag was not set within the bound
RmqTimeout(s) ==
  /\ pc[s] \in {"rmq_wait_chunk", "rmq_wait_checksum"}
  /\ ~sess[s].response_received
  /\ peer[s].toMe = <<>>
  /\ pc' = [pc EXCEPT ![s] = "rmq_finally"]
  /\ sess' = [sess EXCEPT ![s].pending = OnTimeout(pc[s]).pending]
  /\ hist' = [hist EXCEPT ![s].timedOut = TRUE, ![s].xfer = "failed"]
  /\ UNCHANGED <<regVars, supVars, obsVars, peer>>

\* finally: store.close(); self.vip.pubsub.unsubscribe("pubsub",
\*     response_topic, protocol_subscription)
RmqFinally(s) ==
  /\ pc[s] = "rmq_finally"
  /\ sess' = [sess EXCEPT ![s].store = "closed",
                          ![s].subscribed = @ \ {ResponseTopic}]
  /\ pc' = [pc EXCEPT ![s] = AfterTransfer(sess[s].pending)]
  /\ UNCHANGED <<regVars, supVars, obsVars, peer, hist>>

\* ------------------------------------------------ _install_wheel_to_platform
Logged(s, op, arg) == [hist EXCEPT ![s].regLog = Append(@, [op |-> op, arg |-> arg])]

\* an exception that is dropped on the way to the caller
RaiseSwallowed(s, exc) ==
  /\ pc' = [pc EXCEPT ![s] = "outer_finally"]
  /\ sess' = sess

Raise(s, exc) ==
  /\ pc' = [pc EXCEPT ![s] = "outer_finally"]
  /\ sess' = [sess EXCEPT ![s].pending = exc]

\* an installer that goes on to the keystore without capturing an archive
BackupStepSkipped(s) ==
  /\ pc[s] = "install"
  /\ pc' = [pc EXCEPT ![s] = IF sess[s].agent_uuid # NoUuid THEN "keystore"
                                                            ELSE "aip_install"]
  /\ UNCHANGED <<regVars, supVars, obsVars, peer, sess, hist>>

\* if agent_uuid: backup_agent_file = "/tmp/{}.tar.gz".format(agent_uuid);
\* agent_data_dir = create_agent_data_dir_if_missing(agent_uuid);
\* backup_agent_data(backup_agent_file, agent_data_dir)
BackupStep(s) ==
  /\ pc[s] = "install"
  /\ IF sess[s].agent_uuid # NoUuid
     THEN \E ok \in BOOLEAN :
            IF ok
            THEN /\ archives' = [archives EXCEPT ![sess[s].agent_uuid] =
                       [present |-> TRUE,
                        files |-> BackupAgentData(dataDir[sess[s].agent_uuid])]]
                 /\ sess' = [sess EXCEPT ![s].backup_agent_file = sess[s].agent_uuid]
                 /\ pc' = [pc EXCEPT ![s] = "keystore"]
                 /\ hist' = [Logged(s, "backup", <<>>) EXCEPT ![s].captured =
                              BackupAgentData(dataDir[sess[s].agent_uuid])]
            ELSE /\ Raise(s, "Error")
                 /\ UNCHANGED <<archives, hist>>
     ELSE /\ pc' = [pc EXCEPT ![s] = "aip_install"]
          /\ UNCHANGED <<archives, sess, hist>>
  /\ UNCHANGED <<installed, identity, keystore, dataDir, proc, nextUuid,
                 supVars, obsVars, peer>>

\* an installer that does not read the old agent's keys
ReadKeystoreNone(agent_uuid) == NoKey

\* keystore = self._aip.get_agent_keystore(agent_uuid): its public and secret
ReadKeystore(agent_uuid) == keystore[agent_uuid]

\* keystore = self._aip.get_agent_keystore(agent_uuid);
\* publickey = keystore.public; secretkey = keystore.secret
KeystoreStep(s) ==
  /\ pc[s] = "keystore"
  /\ \E ok \in BOOLEAN :
       IF ok
       THEN /\ sess' = [sess EXCEPT ![s].keypair = ReadKeystore(sess[s].agent_uuid)]
            /\ pc' = [pc EXCEPT ![s] = "remove"]
       ELSE Raise(s, "Error")
  /\ UNCHANGED <<regVars, supVars, obsVars, peer, hist>>

\* self.remove_agent(agent_uuid)
RemoveStep(s) ==
  /\ pc[s] = "remove"
  /\ LET u == sess[s].agent_uuid IN
       IF u \in installed
       THEN /\ AipRemoveAgent(u)
            /\ hist' = [Logged(s, "remove", <<>>) EXCEPT ![s].oldFiles = dataDir[u]]
            /\ pc' = [pc EXCEPT ![s] = "aip_install"]
            /\ sess' = sess
       ELSE /\ Raise(s, "Error")
            /\ UNCHANGED <<installed, identity, keystore, dataDir, proc, hist>>
  /\ UNCHANGED <<nextUuid, archives, supVars, obsVars, peer>>

\* agent_uuid = self._aip.install_agent(path, vip_identity=vip_identity,
\*                                      publickey=publickey, secretkey=secretkey)
AipInstallStep(s) ==
  /\ pc[s] = "aip_install"
  /\ nextUuid <= MaxUuid
  /\ \E ok \in BOOLEAN :
       IF ok
       THEN /\ AipInstallAgent(nextUuid, sess[s].call.vip_identity, sess[s].keypair)
            /\ sess' = [sess EXCEPT ![s].agent_uuid = nextUuid]
            /\ pc' = [pc EXCEPT ![s] = "restore"]
            /\ hist' = Logged(s, "install", sess[s].data)
       ELSE /\ Raise(s, "Error")
            /\ UNCHANGED <<installed, identity, keystore, nextUuid, hist>>
  /\ UNCHANGED <<dataDir, proc, archives, supVars, obsVars, peer>>

\* if agent_existed_before and backup_agent_file is not None:
\*     restore_agent_data_from_tgz(backup_agent_file,
\*         self._aip.create_agent_data_dir_if_missing(agent_uuid))
\* return agent_uuid
RestoreStep(s) ==
  /\ pc[s] = "restore"
  /\ LET u == sess[s].agent_uuid IN
       IF sess[s].agent_existed_before /\ sess[s].backup_agent_file # NoUuid
       THEN IF archives[sess[s].backup_agent_file].present
            THEN /\ dataDir' = [dataDir EXCEPT ![u] = RestoreAgentDataFromTgz(
                                  archives[sess[s].backup_agent_file].files, @)]
                 /\ hist' = Logged(s, "restore", <<>>)
                 /\ sess' = [sess EXCEPT ![s].result = u]
            ELSE /\ sess' = [sess EXCEPT ![s].pending = "Error"]
                 /\ UNCHANGED <<dataDir, hist>>
       ELSE /\ sess' = [sess EXCEPT ![s].result = u]
            /\ UNCHANGED <<dataDir, hist>>
  /\ pc' = [pc EXCEPT ![s] = "outer_finally"]
  /\ UNCHANGED <<installed, identity, keystore, proc, nextUuid, archives,
                 supVars, obsVars, peer>>

\* finally: shutil.rmtree(tmpdir, ignore_errors=True); the name tmpdir is
\* unbound when mkdtemp raised
OuterFinally(s) ==
  /\ pc[s] = "outer_finally"
  /\ IF sess[s].tmpdir = "unbound"
     THEN sess' = [sess EXCEPT ![s].outcome = "UnboundLocalError"]
     ELSE sess' = [sess EXCEPT ![s].tmpdir = "removed",
                               ![s].outcome = IF sess[s].pending = "none" THEN "ok"
                                              ELSE sess[s].pending]
  /\ pc' = [pc EXCEPT ![s] = "done"]
  /\ UNCHANGED <<regVars, supVars, obsVars, peer, hist>>

\* ------------------------------------------------------------ install: init
IdleHist == [requests |-> <<>>, received |-> <<>>, got |-> <<>>, corrupted |-> FALSE, timedOut |-> FALSE,
             xfer |-> "none", verified |-> <<>>, regLog |-> <<>>,
             regAtCall |-> Registry, oldFiles |-> {}, captured |-> {}, delivered |-> 0]

InitSessions ==
  /\ pc = [s \in Concurrent |-> "idle"]
  /\ sess = [s \in Concurrent |-> IdleSess]
  /\ peer = [s \in Concurrent |-> IdlePeer]
  /\ hist = [s \in Concurrent |-> IdleHist]

\* the calls a transfer is exercised with: every artifact and chunk size, for
\* a new identity and, forced, for an installed one
TransferInputs == [vip_identity : {"a", "c"}, force : {TRUE}, keypair : {NoKey},
                   artifact : Artifacts, fetch_size : ChunkSizes]

\* the calls the orchestration is exercised with: every identity, force and
\* keypair, for a few artifacts
InstallInputs == [vip_identity : {"a", "c", NoIdentity}, force : BOOLEAN,
                  keypair : {NoKey} \cup GivenKeys,
                  artifact : {<<>>, <<"x", "y", "x">>}, fetch_size : {2}]

SessionNext(s) ==
  \/ SenderReply(s)
  \/ Corrupt(s)
  \/ MkDtemp(s)
  \/ OpenStore(s)
  \/ SendFetch(s)
  \/ RecvChunk(s)
  \/ SendChecksum(s)
  \/ RecvChecksum(s)
  \/ ReceiveTimeout(s)
  \/ InnerFinally(s)
  \/ BackupStep(s)
  \/ KeystoreStep(s)
  \/ RemoveStep(s)
  \/ AipInstallStep(s)
  \/ RestoreStep(s)
  \/ OuterFinally(s)

TransferNext == \E s \in Sessions :
  \/ \E in \in TransferInputs : InstallAgent(s, in)
  \/ SessionNext(s)

\* the steps of a call of install_agent_rmq, its sender and its transport
RmqSessionNext(s) ==
  \/ SenderReply(s)
  \/ Corrupt(s)
  \/ MkDtemp(s)
  \/ OpenStore(s)
  \/ Subscribe(s)
  \/ ProtocolSubscription(s)
  \/ RmqSendFetch(s)
  \/ RmqPublished(s)
  \/ RmqRecvChunk(s)
  \/ RmqSendChecksum(s)
  \/ RmqRecvChecksum(s)
  \/ RmqTimeout(s)
  \/ RmqFinally(s)
  \/ BackupStep(s)
  \/ KeystoreStep(s)
  \/ RemoveStep(s)
  \/ AipInstallStep(s)
  \/ RestoreStep(s)
  \/ OuterFinally(s)

RmqNext == \E s \in Sessions :
  \/ \E in \in TransferInputs : InstallAgentRmq(s, in)
  \/ RmqSessionNext(s)

\* the call _send_agent makes: install_agent(basename(path), channel.name)
SendAgentInputs == [vip_identity : {NoIdentity}, force : {FALSE}, keypair : {NoKey},
                    artifact : Artifacts, fetch_size : {FetchSize}]

\* install_agent called and fed by _send_agent
SendAgentNext == \E s \in Sessions :
  \/ \E in \in SendAgentInputs : InstallAgent(s, in)
  \/ SendAgentRecvOpen(s)
  \/ SendAgentSend(s)
  \/ SendAgentRecvDone(s)
  \/ SendAgentKill(s)
  \/ MkDtemp(s)
  \/ OpenStore(s)
  \/ SendFetch(s)
  \/ RecvChunk(s)
  \/ SendChecksum(s)
  \/ RecvChecksum(s)
  \/ ReceiveTimeout(s)
  \/ InnerFinally(s)
  \/ BackupStep(s)
  \/ AipInstallStep(s)
  \/ RestoreStep(s)
  \/ OuterFinally(s)

\* the calls two concurrent sessions are exercised with: forced installs of an
\* installed and of a new identity, one artifact of one chunk
ConcurrentInputs == [vip_identity : {"a", "c"}, force : {TRUE}, keypair : {NoKey},
                     artifact : {<<"x">>}, fetch_size : {2}]

ConcurrentNext == \E s \in Concurrent :
  \/ \E in \in ConcurrentInputs : InstallAgent(s, in)
  \/ SessionNext(s)

\* the calls two concurrent sessions for one identity are exercised with: an
\* identity that is not installed, with and without force
IdentityInputs == [vip_identity : {"c"}, force : BOOLEAN, keypair : {NoKey},
                   artifact : {<<"x">>}, fetch_size : {2}]

IdentityNext == \E s \in Concurrent :
  \/ \E in \in IdentityInputs : InstallAgent(s, in)
  \/ SessionNext(s)

InstallNext == \E s \in Sessions :
  \/ \E in \in InstallInputs : InstallAgent(s, in)
  \/ SessionNext(s)

\* ----------------------------------------------------------------- init
\* ControlService.__init__: crashed_agents = {}; the registry holds the
\* agents installed before the platform started
InitRegistry ==
  /\ installed = {1, 2}
  /\ identity = [u \in UUIDs |-> IF u = 1 THEN "a" ELSE IF u = 2 THEN "b" ELSE NoIdentity]
  /\ keystore = [u \in UUIDs |-> IF u \in {1, 2} THEN GenKey(u) ELSE NoKey]
  /\ nextUuid = 3
  /\ archives = [u \in UUIDs |-> [present |-> FALSE, files |-> {}]]

InitSupervisor ==
  /\ crashed_agents = EmptyDict
  /\ tasks = {}
  /\ alerts = [u \in UUIDs |-> 0]
  /\ now = 0
  /\ polls = 0
  /\ period \in Periods
  /\ restarting = {}
  /\ sched = [u \in UUIDs |-> <<>>]
  /\ steady = [u \in UUIDs |-> u \in installed /\ proc[u] = "crashed"]
  /\ alertFailed = FALSE
  /\ restarted = [u \in UUIDs |-> FALSE]
  /\ ev = [op |-> "init", uid |-> NoUuid, res |-> "ok"]

\* the supervisor's initial states: the agents' processes in any state, the
\* data directories empty
InitProcs ==
  /\ proc \in [UUIDs -> {"never", "running", "crashed"}]
  /\ \A u \in UUIDs \ {1, 2} : proc[u] = "never"
  /\ dataDir = [u \in UUIDs |-> {}]

\* the installer's initial states: agent 1 with any data directory and its
\* process in any state
InitData ==
  /\ proc \in [UUIDs -> {"never", "running", "crashed"}]
  /\ \A u \in UUIDs \ {1} : proc[u] = "never"
  /\ dataDir \in [UUIDs -> SUBSET Files]
  /\ \A u \in UUIDs \ {1} : dataDir[u] = {}

Init == InitRegistry /\ InitProcs /\ InitSupervisor /\ InitSessions

InitInstall == InitRegistry /\ InitData /\ InitSupervisor /\ InitSessions

\* the transfer's initial states: agent 1 running, with a full data directory
InitFull ==
  /\ proc = [u \in UUIDs |-> IF u = 1 THEN "running" ELSE "never"]
  /\ dataDir = [u \in UUIDs |-> IF u = 1 THEN Files ELSE {}]

InitTransfer == InitRegistry /\ InitFull /\ InitSupervisor /\ InitSessions

SupervisorNext ==
  \/ MonitorAgents
  \/ \E t \in tasks : RestartAgent(t)
  \/ \E u \in UUIDs : Crash(u)
  \/ Advance

Next == SupervisorNext \/ InstallNext

Spec == Init /\ [][Next]_vars

\* one agent, crashed when the platform starts
InitOneCrashed ==
  /\ proc = [u \in UUIDs |-> IF u = 1 THEN "crashed" ELSE "never"]
  /\ dataDir = [u \in UUIDs |-> {}]

InitCycle == InitRegistry /\ InitOneCrashed /\ InitSupervisor /\ InitSessions

CycleNext ==
  \/ MonitorAgentsUpTo(MaxCyclePolls)
  \/ \E t \in tasks : RestartAgent(t)
  \/ \E u \in UUIDs : Crash(u)
  \/ \E u \in UUIDs : ExitClean(u)
  \/ AdvanceUpTo(MaxCyclePolls)

\* the supervisor with one crashed agent, over more polls
SpecCycle == InitCycle /\ [][CycleNext]_vars

\* the calls made while the supervisor runs: a forced install over agent 1
RaceInputs == [vip_identity : {"a"}, force : {TRUE}, keypair : {NoKey},
               artifact : {<<"x">>}, fetch_size : {2}]

\* the supervisor, its restart tasks switched out at stop_agent, with the
\* RPCs remove_agent and install_agent
RaceNext ==
  \/ MonitorAgentsUpTo(MaxRacePolls)
  \/ \E t \in tasks : RestartStop(t)
  \/ \E u \in UUIDs : RestartStart(u)
  \/ \E u \in UUIDs : RemoveAgent(u)
  \/ \E u \in UUIDs : Crash(u)
  \/ \E u \in UUIDs : ExitClean(u)
  \/ AdvanceUpTo(MaxRacePolls)
  \/ \E s \in Sessions :
       \/ \E in \in RaceInputs : InstallAgent(s, in)
       \/ SessionNext(s)

SpecRace == InitCycle /\ [][RaceNext]_vars

\* the supervisor alone
SpecSupervisor == Init /\ [][SupervisorNext]_vars

\* one transfer session, over every artifact and chunk size
SpecTransfer == InitTransfer /\ [][TransferNext]_vars

\* one transfer session over pub/sub
SpecRmq == InitTransfer /\ [][RmqNext]_vars

\* one transfer session over either realization of the channel
SpecChannels == InitTransfer /\ [][TransferNext \/ RmqNext]_vars

\* one transfer session with _send_agent as the sender
SpecSendAgent == InitTransfer /\ [][SendAgentNext]_vars

\* two install calls in flight at once
SpecConcurrent == InitTransfer /\ [][ConcurrentNext]_vars

\* two concurrent calls of install_agent for the same identity
SpecIdentity == InitTransfer /\ [][IdentityNext]_vars

\* one install call, over every identity, force and keypair
SpecInstall == InitInstall /\ [][InstallNext]_vars

\* ----------------------------------------------------------------- claims
\* the delays the supervisor is said to use, in minutes
Backoff == <<0, 5, 10, 15, 20>>

\* C3: an agent that is crashed at every poll and is never restarted
\* successfully, with no CrashRecord at the start, gets exactly five restart
\* tasks, with delays 0, 5, 10, 15, 20 minutes, one per poll, before the
\* sixth poll raises the alert; right after the alert it has no CrashRecord.
C3_FiveRestartsThenAlert ==
  \A u \in UUIDs :
    (steady[u] /\ ~alertFailed) =>
      /\ polls <= 5 => /\ sched[u] = SubSeq(Backoff, 1, polls)
                       /\ alerts[u] = 0
      /\ polls = 6 => /\ sched[u] = Backoff
                      /\ alerts[u] = 1
                      /\ u \notin DOMAIN crashed_agents
                      /\ \A t \in tasks : t.uid = u => t.at < now

C3_Witness ==
  \E u \in UUIDs : steady[u] /\ ~alertFailed /\ polls = 6 /\ alerts[u] = 1

\* C4: after a restart task started a crashed agent, the agent has no
\* CrashRecord, and the next poll that sees it crashed again stores attempt 0
\* and schedules a restart with zero delay.
C4_CleanRestartResets ==
  [][\A u \in UUIDs :
       /\ (ev'.op = "restart" /\ ev'.uid = u /\ ev'.res = "started")
            => u \notin DOMAIN crashed_agents'
       /\ restarted'[u] => u \notin DOMAIN crashed_agents'
       /\ (restarted[u] /\ ~restarted'[u])
            => /\ polls' = polls + 1
               /\ u \in DOMAIN crashed_agents' /\ crashed_agents'[u] = 0
               /\ [uid |-> u, at |-> now, delay |-> 0] \in tasks' \ tasks]_vars

C4_Witness ==
  \E u \in UUIDs :
    /\ ev.op = "poll" /\ ~restarted[u] /\ ~steady[u]
    /\ u \in DOMAIN crashed_agents /\ crashed_agents[u] = 0
    /\ Len(sched[u]) >= 2
    /\ sched[u][Len(sched[u])] = 0 /\ sched[u][Len(sched[u]) - 1] = 0

\* whether the identity of session s's call was installed when it was called,
\* and the uuid it had
ExistedAtCall(s) ==
  \E u \in hist[s].regAtCall.installed :
    hist[s].regAtCall.identity[u] = sess[s].call.vip_identity
OldUuid(s) ==
  CHOOSE u \in hist[s].regAtCall.installed :
    hist[s].regAtCall.identity[u] = sess[s].call.vip_identity
InstallLogged(s) == \E i \in DOMAIN hist[s].regLog : hist[s].regLog[i].op = "install"

\* C1: a transfer from a sender that follows the protocol, with nothing
\* corrupted and no timeout, that ends without error leaves the destination
\* file equal to the artifact, and the last digest verified is the hash of
\* those bytes.
C1_RoundTrip ==
  \A s \in Sessions :
    (hist[s].xfer = "complete" /\ ~hist[s].corrupted /\ ~hist[s].timedOut) =>
      /\ sess[s].data = peer[s].file
      /\ peer[s].file # <<>> => hist[s].verified = Sha512(peer[s].file)

\* C2: once a chunk was replaced in transit by a different byte string (and no
\* receive timed out), the session ends with the checksum mismatch, the
\* temporary directory is removed and the file is never passed to the
\* registry's install.
C2_CorruptionDetected ==
  \A s \in Sessions :
    (hist[s].corrupted /\ ~hist[s].timedOut) =>
      /\ hist[s].xfer # "complete"
      /\ ~InstallLogged(s)
      /\ pc[s] = "done" => /\ sess[s].outcome = "AssertionError"
                           /\ sess[s].tmpdir = "removed"

\* C5: a call without force for an identity that is installed ends at once
\* with the identity conflict (ValueError): no channel was opened, no request
\* sent, and the registry is as it was.
C5_NoForceConflict ==
  \A s \in Sessions :
    (pc[s] # "idle" /\ ~sess[s].call.force /\ ExistedAtCall(s)) =>
      /\ pc[s] = "done"
      /\ sess[s].outcome = "ValueError"
      /\ sess[s].channel = "none"
      /\ hist[s].requests = <<>> /\ peer[s].toPeer = <<>>
      /\ hist[s].regLog = <<>>
      /\ Registry = hist[s].regAtCall

C5_Witness ==
  \E s \in Sessions :
    /\ pc[s] = "done" /\ sess[s].outcome = "ValueError"
    /\ ~sess[s].call.force /\ ExistedAtCall(s)

\* C6: a forced install over an installed identity that returns leaves every
\* file of the old agent's data directory in the new agent's data directory;
\* the old uuid is not installed any more and the returned uuid is, under the
\* identity.
C6_ForcedInstallKeepsData ==
  \A s \in Sessions :
    (pc[s] = "done" /\ sess[s].outcome = "ok" /\ sess[s].call.force
       /\ ExistedAtCall(s)) =>
      /\ hist[s].oldFiles \subseteq dataDir[sess[s].result]
      /\ hist[s].regAtCall.dataDir[OldUuid(s)] \subseteq dataDir[sess[s].result]
      /\ OldUuid(s) \notin installed
      /\ sess[s].result \in installed
      /\ sess[s].result # OldUuid(s)
      /\ identity[sess[s].result] = sess[s].call.vip_identity

C6_Witness ==
  \E s \in Sessions :
    /\ pc[s] = "done" /\ sess[s].outcome = "ok" /\ sess[s].call.force
    /\ ExistedAtCall(s)
    /\ hist[s].oldFiles = Files
    /\ dataDir[sess[s].result] = Files

\* C7: for an empty artifact the receiver sends one fetch and no checksum
\* request and writes nothing; the transfer fails only by a timeout and is
\* complete after that one fetch.
C7_EmptyArtifact ==
  \A s \in Sessions :
    (pc[s] # "idle" /\ peer[s].file = <<>>) =>
      /\ hist[s].requests \in {<<>>, <<"fetch">>}
      /\ sess[s].data = <<>> /\ sess[s].sha512 = <<>>
      /\ hist[s].xfer = "failed" => hist[s].timedOut
      /\ hist[s].xfer = "complete" => hist[s].requests = <<"fetch">>
      /\ (pc[s] = "done" /\ sess[s].outcome = "ok") => hist[s].xfer = "complete"

C7_Witness ==
  \E s \in Sessions :
    /\ peer[s].file = <<>> /\ hist[s].xfer = "complete"
    /\ pc[s] = "done" /\ sess[s].outcome = "ok"
    /\ hist[s].requests = <<"fetch">>

\* C8: when the transfer failed (checksum mismatch or timeout) the registry
\* is as it was when install was called, with or without force: nothing was
\* backed up, removed, stopped or installed, and the call ends with that error.
C8_FailedTransferNoMutation ==
  \A s \in Sessions :
    hist[s].xfer = "failed" =>
      /\ Registry = hist[s].regAtCall
      /\ hist[s].regLog = <<>>
      /\ sess[s].pending \in {"AssertionError", "Timeout"}
      /\ pc[s] \in {"inner_finally", "outer_finally", "done"}
      /\ pc[s] = "done" => sess[s].outcome = sess[s].pending

C8_Witness ==
  \E s \in Sessions :
    /\ hist[s].xfer = "failed" /\ pc[s] = "done"
    /\ sess[s].outcome = "AssertionError"
    /\ sess[s].call.force /\ ExistedAtCall(s)
    /\ OldUuid(s) \in installed

\* C9: after a receive timed out the session is on its way out with the
\* Timeout pending, the caller gets Timeout (not the checksum mismatch), and
\* no further request is sent.
C9_TimeoutAborts ==
  [][\A s \in Sessions :
       /\ hist[s].timedOut => /\ hist'[s].requests = hist[s].requests
                              /\ Len(peer'[s].toPeer) <= Len(peer[s].toPeer)
       /\ hist'[s].timedOut =>
            /\ pc'[s] \in {"inner_finally", "outer_finally", "done"}
            /\ sess'[s].pending = "Timeout"
            /\ pc'[s] = "done" => /\ sess'[s].outcome = "Timeout"
                                  /\ sess'[s].outcome # "AssertionError"]_vars

C9_Witness ==
  \E s \in Sessions :
    /\ hist[s].timedOut /\ pc[s] = "done" /\ sess[s].outcome = "Timeout"
    /\ hist[s].requests = <<"fetch", "checksum">>

\* C10: when a call that opened its channel has ended, the destination file
\* is not open, the channel was closed exactly once and the temporary
\* directory does not exist.
C10_ResourcesReleased ==
  \A s \in Sessions :
    (pc[s] = "done" /\ sess[s].channel # "none") =>
      /\ sess[s].store # "open"
      /\ sess[s].channel = "closed" /\ sess[s].closes = 1
      /\ sess[s].tmpdir # "exists"

\* C11: the requests of a session alternate, starting with a fetch: a fetch
\* answered by chunk bytes is followed by a checksum request and a checksum
\* request by a fetch; a request is sent only when every earlier request has
\* had its response received; and a transfer that completed ended with a
\* fetch answered by the sentinel.
C11_RequestsAlternate ==
  \A s \in Sessions :
    LET req == hist[s].requests
        rcv == hist[s].received
    IN /\ \A i \in DOMAIN req : req[i] = IF i % 2 = 1 THEN "fetch" ELSE "checksum"
       /\ Len(rcv) \in {Len(req), Len(req) - 1}
       /\ \A i \in DOMAIN rcv :
            /\ req[i] = "fetch" => rcv[i] \in {"chunk", "sentinel"}
            /\ req[i] = "checksum" => rcv[i] = "digest"
            /\ rcv[i] = "sentinel" => i = Len(req)
            /\ (rcv[i] = "chunk" /\ i < Len(req)) => req[i + 1] = "checksum"
       /\ pc[s] \in {"fetch", "checksum", "rmq_fetch", "rmq_checksum"}
            => /\ Len(rcv) = Len(req)
               /\ peer[s].toPeer = <<>> /\ peer[s].toMe = <<>>
       /\ hist[s].xfer = "complete"
            => /\ req # <<>> /\ req[Len(req)] = "fetch"
               /\ Len(rcv) = Len(req) /\ rcv[Len(rcv)] = "sentinel"

C11_Witness ==
  \E s \in Sessions :
    /\ hist[s].xfer = "complete" /\ pc[s] = "done"
    /\ hist[s].requests = <<"fetch", "checksum", "fetch", "checksum", "fetch">>
    /\ sess[s].rmq

\* C12: an agent that is crashed from the start and is never started again
\* has at most five restart tasks scheduled for it, however many polls ran.
C12_RetriesBounded ==
  \A u \in UUIDs : steady[u] => Len(sched[u]) <= AttemptLimit

\* C13: right after a poll, whether or not an alert could be delivered, every
\* crashed agent the registry lists was examined: it has its restart task
\* scheduled at this poll under its stored attempt, or (its attempts used up)
\* it has no CrashRecord any more.
C13_AlertFailureIsolated ==
  ev.op = "poll" =>
    \A u \in StatusAgents :
      IsErrorStat(proc[u]) =>
        \/ /\ u \in DOMAIN crashed_agents
           /\ [uid |-> u, at |-> now, delay |-> RestartDelay(crashed_agents[u])] \in tasks
        \/ u \notin DOMAIN crashed_agents

\* C14: a restart task whose start returned an error status leaves
\* crashed_agents as it was, and a restart task removes a record only when
\* its start returned no error status, leaving the agent running.
C14_FailedStartKeepsRecord ==
  [][\A u \in UUIDs :
       (ev'.op = "restart" /\ ev'.uid = u) =>
         /\ ev'.res = "failed" => /\ crashed_agents' = crashed_agents
                                  /\ proc'[u] = "crashed"
         /\ crashed_agents' # crashed_agents
              => /\ ev'.res = "started" /\ proc'[u] = "running"
                 /\ crashed_agents' = DictPop(crashed_agents, u)]_vars

C14_Witness ==
  /\ ev.op = "restart" /\ ev.res = "failed"
  /\ ev.uid \in DOMAIN crashed_agents /\ crashed_agents[ev.uid] = 2

\* C15: a forced install over an installed identity that returns has
\* registered the new agent with the keypair the old agent had.
C15_ForcedInstallKeepsKeys ==
  \A s \in Sessions :
    (pc[s] = "done" /\ sess[s].outcome = "ok" /\ sess[s].call.force
       /\ ExistedAtCall(s)) =>
      /\ hist[s].regAtCall.keystore[OldUuid(s)] # NoKey
      /\ keystore[sess[s].result] = hist[s].regAtCall.keystore[OldUuid(s)]

C15_Witness ==
  \E s \in Sessions :
    /\ pc[s] = "done" /\ sess[s].outcome = "ok" /\ sess[s].call.force
    /\ ExistedAtCall(s) /\ OldUuid(s) = 1
    /\ sess[s].result = 3 /\ keystore[3] = GenKey(1)

\* C16: an install of a new identity that was called with a keypair and
\* returns has registered the agent with that keypair.
C16_GivenKeypairUsed ==
  \A s \in Sessions :
    (pc[s] = "done" /\ sess[s].outcome = "ok" /\ ~ExistedAtCall(s)
       /\ sess[s].call.keypair # NoKey) =>
      keystore[sess[s].result] = sess[s].call.keypair

\* C17: the sender puts a message on the channel only in reply to a request
\* it takes off the channel: to a fetch, at most the requested number of
\* bytes at its cursor, or the sentinel when no bytes remain; to a checksum
\* request, the digest of the bytes it sent so far. With install_agent as the
\* receiver the transfer fails only when a receive timed out or the transport
\* corrupted a chunk.
C17_SenderMirrorsReceiver ==
  /\ [][\A s \in Sessions :
          Len(peer'[s].toMe) > Len(peer[s].toMe) =>
            /\ peer[s].toPeer # <<>>
            /\ peer'[s].toPeer = Tail(peer[s].toPeer)
            /\ LET req == Head(peer[s].toPeer)
                   reply == peer'[s].toMe[Len(peer'[s].toMe)].data
                   data == SenderRead(peer[s].file, peer[s].cursor, req.size)
               IN /\ req.op = "fetch" =>
                       /\ reply = IF data = <<>> THEN Sentinel ELSE data
                       /\ peer'[s].cursor = peer[s].cursor + Len(data)
                  /\ req.op = "checksum" =>
                       reply = Sha512(SubSeq(peer[s].file, 1, peer[s].cursor))]_vars
  /\ [](\A s \in Sessions :
          hist[s].xfer = "failed" => (hist[s].timedOut \/ hist[s].corrupted))

\* C18: when the receiver has concluded end-of-stream (nothing corrupted in
\* transit), the sender's cursor is at the end of the artifact and every
\* chunk of artifact bytes the sender transmitted was written: none was taken
\* for the sentinel.
C18_SentinelOnlyAtEof ==
  \A s \in Sessions :
    (hist[s].xfer = "complete" /\ ~hist[s].corrupted) =>
      /\ peer[s].cursor = Len(peer[s].file)
      /\ sess[s].data = peer[s].sha

\* C19: when a forced install over an installed identity has returned, the
\* members of the archive captured for the old uuid are in the new agent's
\* data directory and the archive does not exist any more.
C19_ArchiveDiscarded ==
  \A s \in Sessions :
    (pc[s] = "done" /\ sess[s].outcome = "ok" /\ sess[s].call.force
       /\ ExistedAtCall(s)) =>
      /\ archives[OldUuid(s)].files \subseteq dataDir[sess[s].result]
      /\ ~archives[OldUuid(s)].present

\* a session between the capture of its backup archive and its restore
HoldsArchive(s) ==
  /\ pc[s] \in {"keystore", "remove", "aip_install", "restore"}
  /\ sess[s].backup_agent_file # NoUuid

\* C20: two sessions in flight never hold the same backup archive, and the
\* archive a session holds has the members that session captured; and the
\* step in which one session's transfer fails (timeout or checksum mismatch)
\* changes nothing of any other session, of the registry or of the archives.
C20_SessionsShareNothing ==
  /\ [](\A s \in Concurrent :
          HoldsArchive(s) =>
            /\ archives[sess[s].backup_agent_file].present
            /\ archives[sess[s].backup_agent_file].files = hist[s].captured
            /\ \A t \in Concurrent \ {s} :
                 HoldsArchive(t) =>
                   sess[t].backup_agent_file # sess[s].backup_agent_file)
  /\ [][\A s \in Concurrent :
          (hist[s].xfer # "failed" /\ hist'[s].xfer = "failed") =>
            /\ \A t \in Concurrent \ {s} :
                 /\ pc'[t] = pc[t] /\ sess'[t] = sess[t]
                 /\ peer'[t] = peer[t] /\ hist'[t] = hist[t]
            /\ UNCHANGED regVars]_vars

\* C21: a restart task that issues the start of an agent (after its stop)
\* does so for a uuid that is installed at that moment: never for one that a
\* remove or a forced reinstall took out of the registry.
C21_NoStartAfterRemove ==
  (ev.op = "restart" /\ ev.res # "skipped") => ev.uid \in installed

\* C22: over pub/sub, as long as no receive timed out, the responses the
\* callback stored are the responses the receives consumed plus at most one
\* that waits, with the flag set, for the receive of the request it answers,
\* whether it was stored while the publish call was waiting or after; when
\* the next request is published every stored response has been consumed,
\* and the receives never consume more responses than were stored.
C22_ResponseConsumedOnce ==
  \A s \in Sessions :
    (sess[s].rmq /\ ~hist[s].timedOut) =>
      LET consumed == Len(hist[s].received) IN
        /\ hist[s].delivered \in {consumed, consumed + 1}
        /\ hist[s].delivered = consumed + 1 =>
             /\ sess[s].response_received
             /\ pc[s] \in {"rmq_pub_fetch", "rmq_wait_chunk",
                           "rmq_pub_checksum", "rmq_wait_checksum"}
             /\ Len(hist[s].requests) = consumed + 1
        /\ pc[s] \in {"rmq_fetch", "rmq_checksum"} => hist[s].delivered = consumed

\* the response to the second request was stored while its publish call was
\* still waiting, after the first response was consumed
C22_Witness ==
  \E s \in Sessions :
    /\ sess[s].rmq /\ ~hist[s].timedOut /\ ~hist[s].corrupted
    /\ pc[s] = "rmq_pub_checksum" /\ sess[s].response_received
    /\ hist[s].delivered = 2 /\ hist[s].received = <<"chunk">>

\* the transfer contract as a function of the responses a receiver was given,
\* in order: the bytes to be written and whether the transfer is complete,
\* has a checksum mismatch, or is open (waiting for the next response)
RECURSIVE Contract(_, _, _)
Contract(replies, i, acc) ==
  IF i > Len(replies) THEN [verdict |-> "open", data |-> acc]
  ELSE IF i % 2 = 1
       THEN IF replies[i] = Sentinel THEN [verdict |-> "complete", data |-> acc]
            ELSE Contract(replies, i + 1, acc \o replies[i])
       ELSE IF replies[i] = Sha512(acc) THEN Contract(replies, i + 1, acc)
            ELSE [verdict |-> "mismatch", data |-> acc]

C24_AttemptInRange ==
  \A u \in DOMAIN crashed_agents :
    /\ u \in UUIDs
    /\ crashed_agents[u] \in 0..(AttemptLimit - 1)

C24_Witness ==
  \E u \in DOMAIN crashed_agents : crashed_agents[u] = AttemptLimit - 1

\* the restart tasks a step adds for agent u
NewTasks(u) == {t \in tasks' \ tasks : t.uid = u}

\* C25: a poll does for each agent the registry lists exactly one of three
\* things: for an agent that is running or exited with status 0, nothing; for
\* a crashed agent whose incremented attempt is below 5, it stores the
\* attempt, schedules one restart task and sends no alert; for a crashed
\* agent whose incremented attempt is 5, it sends one alert, clears the record
\* and schedules no restart task.
C25_PollCases ==
  [][polls' = polls + 1 =>
       \A u \in StatusAgents :
         LET attempt == NextAttempt(crashed_agents, u) IN
           /\ ~IsErrorStat(proc[u]) =>
                /\ (u \in DOMAIN crashed_agents') = (u \in DOMAIN crashed_agents)
                /\ DictGet(crashed_agents', u, -1) = DictGet(crashed_agents, u, -1)
                /\ NewTasks(u) = {} /\ alerts'[u] = alerts[u]
           /\ (IsErrorStat(proc[u]) /\ attempt < AttemptLimit) =>
                /\ u \in DOMAIN crashed_agents' /\ crashed_agents'[u] = attempt
                /\ NewTasks(u) = {[uid |-> u, at |-> now, delay |-> RestartDelay(attempt)]}
                /\ alerts'[u] = alerts[u]
           /\ (IsErrorStat(proc[u]) /\ attempt >= AttemptLimit) =>
                /\ alerts'[u] = alerts[u] + 1
                /\ u \notin DOMAIN crashed_agents'
                /\ NewTasks(u) = {}]_vars

\* C26: a restart task re-checks the agent's status when it runs. For an
\* agent that is running or exited with status 0 it issues neither stop nor
\* start and leaves crashed_agents as it was; for an agent that is still
\* crashed it issues the stop first and the start after it: a start is only
\* ever issued for an agent whose stop was issued by the same task.
C26_RestartRechecks ==
  [][/\ \A t \in tasks \ tasks' :
          IF t.uid \in installed /\ proc[t.uid] = "crashed"
          THEN /\ ev' = [op |-> "stop", uid |-> t.uid, res |-> "ok"]
               /\ t.uid \in restarting'
               /\ proc' = proc /\ crashed_agents' = crashed_agents
          ELSE /\ ev' = [op |-> "restart", uid |-> t.uid, res |-> "skipped"]
               /\ restarting' = restarting
               /\ proc' = proc /\ crashed_agents' = crashed_agents
     /\ (proc' # proc /\ \E u \in UUIDs : proc'[u] = "running" /\ proc[u] # "running") =>
          /\ ev'.op = "restart" /\ ev'.res \in {"started", "keyerror"}
          /\ ev'.uid \in restarting /\ ev'.uid \notin restarting'
     /\ (restarting' # restarting /\ tasks' = tasks) =>
          /\ ev'.op = "restart" /\ ev'.res # "skipped"
          /\ restarting' = restarting \ {ev'.uid} /\ ev'.uid \in restarting]_vars

\* a restart task found its agent exited with status 0 and did nothing
C26_Witness ==
  /\ ev.op = "restart" /\ ev.res = "skipped"
  /\ ev.uid \in installed /\ proc[ev.uid] = "exited0"
  /\ restarted[ev.uid]

\* the time at which the scheduler runs restart task t
Due(t) == t.at + t.delay

\* the restart tasks of agent u that have not run yet
Pending(u) == {t \in tasks : t.uid = u}

\* the restart tasks of agent u that have run; for an agent that stayed
\* crashed each of them failed to start it
Executed(u) == Len(sched[u]) - Cardinality(Pending(u))

\* C27: for an agent that stays crashed the time between the runs of two
\* consecutive restart tasks grows with each attempt: of three restart tasks
\* that follow one another, the last two are further apart than the first two.
C27_IncreasingIntervals ==
  \A u \in UUIDs : steady[u] =>
    \A t1, t2, t3 \in Pending(u) :
      (/\ Due(t1) < Due(t2) /\ Due(t2) < Due(t3)
       /\ ~\E t \in Pending(u) : Due(t1) < Due(t) /\ Due(t) < Due(t3) /\ t # t2)
      => Due(t3) - Due(t2) > Due(t2) - Due(t1)

\* C28: the attempt counter counts restart attempts that ran and failed: for
\* an agent that stays crashed the stored attempt never exceeds the number of
\* restart tasks that have run, and an alert is sent only after 5 restart
\* tasks for the agent have run.
C28_CountsFailedRestarts ==
  \A u \in UUIDs : steady[u] =>
    /\ u \in DOMAIN crashed_agents => crashed_agents[u] <= Executed(u)
    /\ alerts[u] >= 1 => Executed(u) >= AttemptLimit

\* the positions of the registry operation op in the log of session s
LogAt(s, op) == {i \in DOMAIN hist[s].regLog : hist[s].regLog[i].op = op}

\* C29: in a forced install over an existing agent the archive is captured
\* and the keypair is read before the old agent is removed, the old agent is
\* removed before the new artifact is registered, and the archive is restored
\* only after the new agent is registered; as long as the old agent has not
\* been removed, a failure of the backup or of the keystore included, it
\* stays installed under its identity with its keys and data.
C29_ForcedInstallOrder ==
  \A s \in Sessions :
    (pc[s] # "idle" /\ sess[s].call.force /\ ExistedAtCall(s)) =>
      LET old == OldUuid(s) IN
        /\ \A r \in LogAt(s, "remove") :
             /\ \E b \in LogAt(s, "backup") : b < r
             /\ archives[old].present /\ sess[s].backup_agent_file = old
             /\ sess[s].keypair = hist[s].regAtCall.keystore[old]
        /\ pc[s] = "remove" =>
             /\ LogAt(s, "backup") # {} /\ LogAt(s, "remove") = {}
             /\ sess[s].keypair = keystore[old]
        /\ \A i \in LogAt(s, "install") : \E r \in LogAt(s, "remove") : r < i
        /\ \A x \in LogAt(s, "restore") : \E i \in LogAt(s, "install") : i < x
        /\ LogAt(s, "remove") = {} =>
             /\ old \in installed
             /\ identity[old] = sess[s].call.vip_identity
             /\ keystore[old] = hist[s].regAtCall.keystore[old]
             /\ dataDir[old] = hist[s].regAtCall.dataDir[old]
             /\ LogAt(s, "install") = {} /\ LogAt(s, "restore") = {}

\* a forced install over an existing agent went through all four steps
C29_Witness ==
  \E s \in Sessions :
    /\ pc[s] = "done" /\ sess[s].call.force /\ ExistedAtCall(s)
    /\ sess[s].outcome = "ok"
    /\ [i \in DOMAIN hist[s].regLog |-> hist[s].regLog[i].op] =
         <<"backup", "remove", "install", "restore">>

\* C30: when registering the new artifact fails after the old agent was
\* removed in a forced install, the caller gets the error and no uuid, nothing
\* is rolled back, and the identity resolves to no agent: the old uuid is
\* gone and no new uuid was installed.
C30_NoRollback ==
  \A s \in Sessions :
    (/\ pc[s] \in {"outer_finally", "done"}
     /\ sess[s].call.force /\ ExistedAtCall(s)
     /\ LogAt(s, "remove") # {} /\ LogAt(s, "install") = {}) =>
      /\ sess[s].pending = "Error" /\ sess[s].result = NoUuid
      /\ pc[s] = "done" => sess[s].outcome = "Error"
      /\ IdentityExists(sess[s].call.vip_identity) = NoUuid
      /\ OldUuid(s) \notin installed
      /\ installed = hist[s].regAtCall.installed \ {OldUuid(s)}
      /\ dataDir[OldUuid(s)] = {} /\ keystore[OldUuid(s)] = NoKey

\* a forced install that removed the old agent returned the error of
\* self._aip.install_agent to its caller
C30_Witness ==
  \E s \in Sessions :
    /\ pc[s] = "done" /\ sess[s].call.force /\ ExistedAtCall(s)
    /\ LogAt(s, "remove") # {} /\ LogAt(s, "install") = {}
    /\ sess[s].outcome = "Error"
    /\ hist[s].regAtCall.dataDir[OldUuid(s)] # {}

\* C31: each time the receiver is about to send a fetch, the bytes written to
\* the destination are exactly the bytes of the artifact up to the sender's
\* cursor, the receiver's digest equals the sender's digest over the bytes it
\* transmitted, and no request or response is in flight.
C31_PrefixAtFetch ==
  \A s \in Sessions :
    pc[s] \in {"fetch", "rmq_fetch"} =>
      /\ sess[s].data = SubSeq(peer[s].file, 1, peer[s].cursor)
      /\ Sha512(sess[s].sha512) = Sha512(peer[s].sha)
      /\ peer[s].sha = SubSeq(peer[s].file, 1, peer[s].cursor)
      /\ peer[s].toPeer = <<>> /\ peer[s].toMe = <<>>

\* the receiver is about to send its third fetch, with part of the artifact
\* written
C31_Witness ==
  \E s \in Sessions :
    /\ pc[s] = "fetch"
    /\ Len(hist[s].requests) = 4
    /\ sess[s].data # <<>> /\ Len(sess[s].data) < Len(peer[s].file)

\* C32: on every exit path of an install over pub/sub the subscription the
\* session created is removed: once the call has returned the session holds
\* no subscription, so its callback is not run any more.
C32_Unsubscribed ==
  \A s \in Sessions :
    (sess[s].rmq /\ pc[s] = "done") => sess[s].subscribed = {}

\* C33: for any one agent at most one restart task is pending at any time.
C33_OnePendingRestart ==
  \A u \in UUIDs : Cardinality(Pending(u)) <= 1

\* C34: whenever a restart task succeeds in starting its agent, crashed_agents
\* holds a record for that uuid at that moment, so the pop of the record does
\* not raise.
C34_RecordAtStart ==
  [][\A u \in UUIDs :
       (proc[u] # "running" /\ proc'[u] = "running") =>
         /\ u \in DOMAIN crashed_agents
         /\ ev'.res # "keyerror"]_vars

\* C35: every uuid that has a record in crashed_agents is an agent installed
\* in the registry.
C35_RecordsOfInstalled ==
  \A u \in DOMAIN crashed_agents : u \in installed

\* C36: identity stays unique under concurrent installs: no two installed
\* agents carry the same identity, and the step in which a call without force
\* registers its agent finds no installed agent under that identity.
C36_IdentityUnique ==
  /\ [](\A u, v \in installed :
          (identity[u] = identity[v] /\ identity[u] # NoIdentity) => u = v)
  /\ [][\A s \in Concurrent :
          (pc[s] = "aip_install" /\ pc'[s] = "restore" /\ ~sess[s].call.force) =>
            IdentityExists(sess[s].call.vip_identity) = NoUuid]_vars

\* the number of requests of kind op session s has sent
Requests(s, op) == Cardinality({i \in DOMAIN hist[s].requests : hist[s].requests[i] = op})

\* ceil(N/C), the number of chunks of the artifact of session s
Chunks(s) == (Len(peer[s].file) + sess[s].call.fetch_size - 1) \div sess[s].call.fetch_size

\* C37: against a sender that answers every request correctly and in time, a
\* session for an artifact of N bytes with chunk size C does not fail, never
\* sends more than ceil(N/C)+1 fetch and ceil(N/C) checksum requests, and has
\* sent exactly that many when its transfer ends.
C37_RequestCount ==
  \A s \in Sessions :
    (pc[s] \notin {"idle", "mkdtemp", "open"}
     /\ ~hist[s].corrupted /\ ~hist[s].timedOut /\ sess[s].store # "unbound") =>
      /\ Requests(s, "fetch") <= Chunks(s) + 1
      /\ Requests(s, "checksum") <= Chunks(s)
      /\ hist[s].xfer # "failed"
      /\ hist[s].xfer = "complete" =>
           /\ Requests(s, "fetch") = Chunks(s) + 1
           /\ Requests(s, "checksum") = Chunks(s)
====
